---- MODULE Spec2Model ----
(***************************************************************************)
(* Model of the image destinations (directory, OCI layout), the manifest   *)
(* dispatch and the registry image source.                                 *)
(*                                                                         *)
(* Strings are sequences of string pieces, with the separators ":" and "/" *)
(* as pieces of their own, so that a digest can be split at ":" and a path *)
(* at "/".  File contents are sequences of byte tokens; a partially        *)
(* written file holds a proper prefix of the data.                         *)
(***************************************************************************)
EXTENDS Naturals, Integers, Sequences, FiniteSets, TLC

(* ------------------------------ bounds -------------------------------- *)

\* longest input stream of a PutBlob call, in bytes
MaxLen == 2
\* calls begun in one behaviour
MaxCalls == 2
\* callers of the concurrent specification
NumProcs == 2
\* temporary-file names ioutil.TempFile can draw
NumTemp == 2
\* signatures in one list
MaxSigs == 2
\* layers of one manifest
MaxLayers == 3

Byte == {"a", "b"}

Procs == 1..NumProcs

(* ------------------------------ strings ------------------------------- *)

RECURSIVE Join(_)
Join(s) == IF s = <<>> THEN "" ELSE Head(s) \o Join(Tail(s))

Prefix(s, n) == SubSeq(s, 1, n)

\* strings.SplitN(s, ":", 2): the index of the first ":", 0 when there is none
FirstColon(s) ==
    IF \E i \in 1..Len(s) : s[i] = ":"
    THEN CHOOSE i \in 1..Len(s) : s[i] = ":" /\ \A j \in 1..(i - 1) : s[j] # ":"
    ELSE 0

\* filepath.Dir: the path without its last element ("" is the destination itself)
Dir(path) == IF Len(path) <= 2 THEN <<>> ELSE Prefix(path, Len(path) - 2)

\* the directory and every ancestor of it below the destination
Ancestors(d) == {Prefix(d, n) : n \in {k \in 1..Len(d) : k % 2 = 1}}

(* ------------------------------ media types --------------------------- *)

DockerV2Schema1MIMEType == "application/vnd.docker.distribution.manifest.v1+json"
DockerV2Schema1SignedMIMEType == "application/vnd.docker.distribution.manifest.v1+prettyjws"
DockerV2Schema2MIMEType == "application/vnd.docker.distribution.manifest.v2+json"
DockerV2ListMIMEType == "application/vnd.docker.distribution.manifest.list.v2+json"
MediaTypeImageManifest == "application/vnd.oci.image.manifest.v1+json"
MediaTypeImageManifestList == "application/vnd.oci.image.manifest.list.v1+json"
MediaTypeImageSerialization == "application/vnd.oci.image.serialization.rootfs.tar.gzip"
MediaTypeImageSerializationConfig == "application/vnd.oci.image.serialization.config.v1+json"
DockerConfigMIMEType == "application/vnd.docker.container.image.v1+json"
DockerLayerMIMEType == "application/vnd.docker.image.rootfs.diff.tar.gzip"

(* ------------------------------ sha256 -------------------------------- *)

\* every token a hashed content can hold
Alphabet ==
    <<"a", "b", "indent", "compact", "", "1", "2", "3", "garbage",
      DockerV2Schema1MIMEType, DockerV2Schema1SignedMIMEType, DockerV2Schema2MIMEType,
      DockerV2ListMIMEType, MediaTypeImageManifest, MediaTypeImageManifestList,
      MediaTypeImageSerialization, MediaTypeImageSerializationConfig,
      DockerConfigMIMEType, DockerLayerMIMEType, "text/plain",
      "sha256:c", "sha256:l1", "sha256:l2", "7", "8", "NaN", "fsLayers">>

Ord(t) == CHOOSE i \in 1..Len(Alphabet) : Alphabet[i] = t

HashBase == 32
HashPrime == 16777213

\* sha256.New()
Sha256New == 0

\* h.Write(p) for one byte
Sha256Write(h, t) == (h * HashBase + Ord(t)) % HashPrime

RECURSIVE Sha256WriteAll(_, _)
Sha256WriteAll(h, s) ==
    IF s = <<>> THEN h ELSE Sha256WriteAll(Sha256Write(h, Head(s)), Tail(s))

\* h.Sum(nil): the digest bytes, most significant first
Sha256Sum(h) == <<h \div 65536, (h \div 256) % 256, h % 256>>

HexDigit == <<"0", "1", "2", "3", "4", "5", "6", "7", "8", "9", "a", "b", "c", "d", "e", "f">>

\* hex.EncodeToString
RECURSIVE HexEncodeToString(_)
HexEncodeToString(bs) ==
    IF bs = <<>> THEN ""
    ELSE HexDigit[(Head(bs) \div 16) + 1] \o HexDigit[(Head(bs) % 16) + 1]
         \o HexEncodeToString(Tail(bs))

\* sha256.Sum256 of a whole content, hex encoded
HexSha256(s) == HexEncodeToString(Sha256Sum(Sha256WriteAll(Sha256New, s)))

(* ------------------------------ JSON documents ------------------------ *)

\* A manifest document is the token sequence
\*   <<format, schemaVersion, mediaType,
\*     config.mediaType, config.digest, config.size,
\*     (layer.mediaType, layer.digest, layer.size)*>>
\* format is the document's white space ("indent" or "compact"), which
\* encoding/json reads over and never writes.

IsNumeral(t) == \E n \in 0..9 : ToString(n) = t
Atoi(t) == CHOOSE n \in 0..9 : ToString(n) = t

\* the document is JSON at all
JSONValid(m) == Len(m) >= 3 /\ m[1] \in {"indent", "compact"}

\* manifest.GuessMIMEType
GuessMIMEType(m) ==
    IF ~JSONValid(m) THEN ""
    ELSE IF m[3] \in {DockerV2Schema2MIMEType, DockerV2ListMIMEType,
                      MediaTypeImageManifest, MediaTypeImageManifestList}
         THEN m[3]
    ELSE IF m[2] = "1" THEN DockerV2Schema1MIMEType
    ELSE IF m[2] = "2" THEN DockerV2Schema2MIMEType
    ELSE ""

\* the descriptor held at tokens i, i+1, i+2
DescriptorAt(m, i) == [MediaType |-> m[i], Digest |-> m[i + 1], Size |-> Atoi(m[i + 2])]

\* json.Unmarshal(m, &om) for om an imgspecv1.Manifest
Unmarshal(m) ==
    IF /\ JSONValid(m)
       /\ Len(m) >= 6
       /\ (Len(m) - 6) % 3 = 0
       /\ IsNumeral(m[2])
       /\ \A k \in 0..((Len(m) - 6) \div 3) : IsNumeral(m[6 + 3 * k])
    THEN [err |-> "",
          om |-> [SchemaVersion |-> Atoi(m[2]),
                  MediaType |-> m[3],
                  Config |-> DescriptorAt(m, 4),
                  Layers |-> [k \in 1..((Len(m) - 6) \div 3) |-> DescriptorAt(m, 4 + 3 * k)]]]
    ELSE [err |-> "json: cannot unmarshal",
          om |-> [SchemaVersion |-> 0, MediaType |-> "",
                  Config |-> [MediaType |-> "", Digest |-> "", Size |-> 0],
                  Layers |-> <<>>]]

MarshalDescriptor(d) == <<d.MediaType, d.Digest, ToString(d.Size)>>

RECURSIVE MarshalLayers(_)
MarshalLayers(ls) ==
    IF ls = <<>> THEN <<>> ELSE MarshalDescriptor(Head(ls)) \o MarshalLayers(Tail(ls))

\* json.Marshal(om) for om an imgspecv1.Manifest
Marshal(om) ==
    <<"compact", ToString(om.SchemaVersion), om.MediaType>>
        \o MarshalDescriptor(om.Config) \o MarshalLayers(om.Layers)

\* the layers of om with every media type set to mt (the loop of createManifest)
SetLayersMediaType(ls, mt) == [i \in 1..Len(ls) |-> [ls[i] EXCEPT !.MediaType = mt]]

\* createManifest without the loop over om.Layers: the layers keep their
\* Docker media type
createManifestKeepsLayerTypes(m) ==
    LET mt == GuessMIMEType(m)
        u == Unmarshal(m)
        om == [u.om EXCEPT !.MediaType = MediaTypeImageManifest,
                           !.Config.MediaType = MediaTypeImageSerializationConfig]
        fail(e) == [b |-> <<>>, mt |-> "", err |-> e]
    IN CASE mt = DockerV2Schema1MIMEType ->
                fail("can't create OCI manifest from Docker V2 schema 1 manifest")
         [] mt = DockerV2Schema2MIMEType ->
                IF u.err # "" THEN fail(u.err)
                ELSE [b |-> Marshal(om), mt |-> om.MediaType, err |-> ""]
         [] mt = DockerV2ListMIMEType ->
                fail("can't create OCI manifest from Docker V2 schema 2 manifest list")
         [] mt = MediaTypeImageManifestList ->
                fail("can't create OCI manifest from OCI manifest list")
         [] mt = MediaTypeImageManifest ->
                [b |-> m, mt |-> mt, err |-> ""]
         [] OTHER -> fail("Unrecognized manifest media type")

\* createManifest
createManifest(m) ==
    LET mt == GuessMIMEType(m)
        u == Unmarshal(m)
        om == [u.om EXCEPT !.MediaType = MediaTypeImageManifest,
                           !.Layers = SetLayersMediaType(u.om.Layers, MediaTypeImageSerialization),
                           !.Config.MediaType = MediaTypeImageSerializationConfig]
        fail(e) == [b |-> <<>>, mt |-> "", err |-> e]
    IN CASE mt = DockerV2Schema1MIMEType ->
                fail("can't create OCI manifest from Docker V2 schema 1 manifest")
         [] mt = DockerV2Schema2MIMEType ->
                IF u.err # "" THEN fail(u.err)
                ELSE [b |-> Marshal(om), mt |-> om.MediaType, err |-> ""]
         [] mt = DockerV2ListMIMEType ->
                fail("can't create OCI manifest from Docker V2 schema 2 manifest list")
         [] mt = MediaTypeImageManifestList ->
                fail("can't create OCI manifest from OCI manifest list")
         [] mt = MediaTypeImageManifest ->
                [b |-> m, mt |-> mt, err |-> ""]
         [] OTHER -> fail("Unrecognized manifest media type")

\* manifest.Digest: the digest string "sha256:<hex>" of the manifest bytes; a
\* schema 1 manifest must carry a signature block, which no document here does
ManifestDigest(m) ==
    IF GuessMIMEType(m) = DockerV2Schema1MIMEType
    THEN [digest |-> <<>>, err |-> "no signatures"]
    ELSE [digest |-> <<"sha256", ":", HexSha256(m)>>, err |-> ""]

\* json.Marshal(desc) for desc an imgspec.Descriptor
MarshalDesc(desc) == <<desc.MediaType, Join(desc.Digest), ToString(desc.Size)>>

(* ------------------------------ inputs -------------------------------- *)

ConfigTokens(mt) == <<mt, "sha256:c", "7">>

Schema1Manifest == <<"compact", "1", "", "fsLayers">>

Schema2Manifest ==
    <<"indent", "2", DockerV2Schema2MIMEType>> \o ConfigTokens(DockerConfigMIMEType)
        \o <<DockerLayerMIMEType, "sha256:l1", "8", DockerLayerMIMEType, "sha256:l2", "7">>

\* schema 2 by its schemaVersion alone
Schema2Untyped ==
    <<"compact", "2", "">> \o ConfigTokens(DockerConfigMIMEType)
        \o <<DockerLayerMIMEType, "sha256:l2", "8">>

\* schema 2 whose config size is not a number
Schema2BadSize ==
    <<"compact", "2", DockerV2Schema2MIMEType, DockerConfigMIMEType, "sha256:c", "NaN">>

Schema2List == <<"compact", "2", DockerV2ListMIMEType>>

OCIManifest ==
    <<"indent", "2", MediaTypeImageManifest>> \o ConfigTokens(MediaTypeImageSerializationConfig)
        \o <<MediaTypeImageSerialization, "sha256:l1", "8">>

OCIManifestList == <<"compact", "2", MediaTypeImageManifestList>>

UnknownManifest == <<"compact", "3", "text/plain">>

NotJSON == <<"garbage">>

Manifests ==
    {Schema1Manifest, Schema2Manifest, Schema2Untyped, Schema2BadSize, Schema2List,
     OCIManifest, OCIManifestList, UnknownManifest, NotJSON}

RECURSIVE SeqsUpTo(_, _)
SeqsUpTo(S, n) ==
    IF n = 0 THEN {<<>>}
    ELSE LET shorter == SeqsUpTo(S, n - 1)
         IN shorter \cup {Append(s, x) : s \in shorter, x \in S}

\* the input streams of PutBlob
Streams == SeqsUpTo(Byte, MaxLen)

(* ------------------------------ references ---------------------------- *)

\* d.ref.tag of the OCI reference
Tag == "latest"

\* dirReference.manifestPath
manifestPath == <<"manifest.json">>

\* dirReference.layerPath
layerPath(digest) == digest

\* dirReference.signaturePath: signature-<index+1>
signaturePath(index) == <<"signature-" \o ToString(index + 1)>>

\* ociReference.ociLayoutPath
ociLayoutPath == <<"oci-layout">>

\* ociReference.blobPath: blobs/<algo>/<hex>, an error unless digest is <algo>:<hex>
blobPath(digest) ==
    LET i == FirstColon(digest)
    IN IF i = 0
       THEN [path |-> <<>>, err |-> "unexpected digest reference"]
       ELSE [path |-> <<"blobs", "/">> \o Prefix(digest, i - 1) \o <<"/">>
                          \o SubSeq(digest, i + 1, Len(digest)),
             err |-> ""]

\* ociReference.descriptorPath
descriptorPath(tag) == <<"refs", "/", tag>>

\* the literal PutManifest writes to oci-layout
OCILayout == <<"{", "imageLayoutVersion: 1.0.0", "}">>

(* ------------------------------ state --------------------------------- *)

VARIABLES
    dest,     \* the kind of the destination the handle was opened on: "dir" or "oci"
    files,    \* the regular files below the destination: path -> [data, mode]
    dirs,     \* the directories below the destination
    proc,     \* each caller's call in progress: its position and its locals
    calls,    \* calls begun so far
    sc,       \* the registry source's call in progress
    wire,     \* the requests the call in progress made, each with its response
    disp      \* an input of manifestInstanceFromBlob and what it returned

fsVars == <<dest, files, dirs, proc, calls>>

\* the state outside the destinations
otherVars == <<sc, wire, disp>>

\* mode of a file ioutil.TempFile creates
TempFileMode == 384
\* 0644
Mode0644 == 420

NoRet == [digest |-> <<>>, size |-> 0, err |-> "none"]

\* a caller outside any call
Idle ==
    [op |-> "none", pc |-> "idle",
     stream |-> <<>>, errAt |-> -1, pos |-> 0,
     blobFile |-> <<>>, h |-> Sha256New, size |-> 0, succeeded |-> FALSE,
     m |-> <<>>, ociMan |-> <<>>, mt |-> "", digest |-> <<>>, data |-> <<>>,
     wf |-> "", err |-> "", ret |-> NoRet,
     signatures |-> <<>>, i |-> 0,
     expected |-> <<>>, after |-> [files |-> <<>>, dirs |-> {}],
     before |-> [files |-> <<>>, dirs |-> {}]]


\* the names ioutil.TempFile(dir, prefix) can create
TempNames(prefix) == {<<prefix \o ToString(i)>> : i \in 1..NumTemp}

TempPrefix == IF dest = "dir" THEN "dir-put-blob" ELSE "oci-put-blob"

Exists(path) == path \in DOMAIN files

\* the directory exists (the destination itself always does)
DirExists(d) == d = <<>> \/ d \in dirs

\* files with path holding f
WithFile(fs, path, f) == [q \in (DOMAIN fs) \cup {path} |-> IF q = path THEN f ELSE fs[q]]

\* files without path
WithoutFile(fs, path) == [q \in (DOMAIN fs) \ {path} |-> fs[q]]

NoSnapshot == [files |-> <<>>, dirs |-> {}]

\* the destination as a call finds it
Snapshot == [files |-> files, dirs |-> dirs]

\* error values of the registry source: nil, or a kind with what it carries
NoError == [kind |-> "nil", statusCode |-> 0, body |-> <<>>]

ErrorOf(kind) == [kind |-> kind, statusCode |-> 0, body |-> <<>>]

\* the registry source outside any call
SourceIdle ==
    [op |-> "none", pc |-> "idle", mimetypes |-> <<>>,
     ret |-> [manblob |-> <<>>, mt |-> "", err |-> NoError],
     signatures |-> <<>>, body |-> "nil", size |-> 0]

NotCalled == [variant |-> "notcalled", err |-> ""]

\* no registry call and no dispatch
OtherIdle ==
    /\ sc = SourceIdle
    /\ wire = <<>>
    /\ disp = [mt |-> "", manblob |-> <<>>, out |-> NotCalled]

\* no destination call
FsIdle ==
    /\ dest = "dir"
    /\ files = <<>>
    /\ dirs = {}
    /\ proc = [p \in Procs |-> Idle]
    /\ calls = 0

CanBegin(p) == proc[p].pc \in {"idle", "done"} /\ calls < MaxCalls

\* the call of p returns
Return(p, r) == [proc[p] EXCEPT !.pc = "done", !.ret = r]

\* the destination is an existing directory without files; an OCI layout may
\* have its blobs/sha256 directory already
FsInit ==
    /\ dest \in {"dir", "oci"}
    /\ files = <<>>
    /\ dirs \in IF dest = "oci" THEN {{}, Ancestors(<<"blobs", "/", "sha256">>)} ELSE {{}}
    /\ proc = [p \in Procs |-> Idle]
    /\ calls = 0

(* ------------------------------ PutBlob -------------------------------- *)

\* the digest PutBlob computes from the hash state
ComputedDigest(h) ==
    IF dest = "dir"
    THEN <<HexEncodeToString(Sha256Sum(h))>>
    ELSE <<"sha256", ":", HexEncodeToString(Sha256Sum(h))>>

\* the final path of a blob with the computed digest
FinalBlobPath(digest) ==
    IF dest = "dir" THEN [path |-> layerPath(digest), err |-> ""] ELSE blobPath(digest)

\* PutBlob creating its temporary file under one fixed name, truncating it when
\* it exists, in place of ioutil.TempFile
PutBlobTempFileFixedName(p, stream, digest, errAt, ok, snap) ==
    /\ CanBegin(p)
    /\ calls' = calls + 1
    /\ LET name == <<TempPrefix \o "1">>
           call == [Idle EXCEPT !.op = "PutBlob", !.stream = stream, !.errAt = errAt,
                                !.expected = digest, !.before = snap]
       IN IF ok
          THEN /\ files' = WithFile(files, name, [data |-> <<>>, mode |-> TempFileMode])
               /\ proc' = [proc EXCEPT ![p] = [call EXCEPT !.pc = "copy", !.blobFile = name]]
          ELSE /\ files' = files
               /\ proc' = [proc EXCEPT ![p] =
                              [call EXCEPT !.pc = "done",
                                           !.ret = [digest |-> <<>>, size |-> -1, err |-> "tempfile"]]]
    /\ UNCHANGED <<otherVars, dest, dirs>>

\* PutBlob is called on stream, which fails after errAt bytes (never when
\* errAt = -1), and with the digest the caller expects, which no statement of
\* PutBlob reads: ioutil.TempFile creates the temporary file.  snap is the
\* destination as the call finds it, kept for the claims about one call.
PutBlobTempFile(p, stream, digest, errAt, ok, snap) ==
    /\ CanBegin(p)
    /\ calls' = calls + 1
    /\ LET free == TempNames(TempPrefix) \ DOMAIN files
           call == [Idle EXCEPT !.op = "PutBlob", !.stream = stream, !.errAt = errAt,
                                !.expected = digest, !.before = snap]
       IN IF ok /\ free # {}
          THEN \E name \in free :
                  /\ files' = WithFile(files, name, [data |-> <<>>, mode |-> TempFileMode])
                  /\ proc' = [proc EXCEPT ![p] = [call EXCEPT !.pc = "copy", !.blobFile = name]]
          ELSE /\ files' = files
               /\ proc' = [proc EXCEPT ![p] =
                              [call EXCEPT !.pc = "done",
                                           !.ret = [digest |-> <<>>, size |-> -1, err |-> "tempfile"]]]
    /\ UNCHANGED <<otherVars, dest, dirs>>

\* io.Copy taking a read error of the stream for the end of the stream
PutBlobCopyIgnoresReadError(p, ok) ==
    LET c == proc[p]
    IN /\ c.op = "PutBlob" /\ c.pc = "copy"
       /\ IF c.pos = c.errAt \/ c.pos = Len(c.stream)
          THEN /\ ok
               /\ proc' = [proc EXCEPT ![p].size = c.pos, ![p].pc = "sync"]
               /\ files' = files
          ELSE LET b == c.stream[c.pos + 1]
               IN IF ok
                  THEN /\ files' = [files EXCEPT ![c.blobFile].data = Append(@, b)]
                       /\ proc' = [proc EXCEPT ![p].h = Sha256Write(c.h, b),
                                               ![p].pos = c.pos + 1]
                  ELSE /\ files' = files
                       /\ proc' = [proc EXCEPT ![p].h = Sha256Write(c.h, b),
                                               ![p].err = "write", ![p].pc = "defer"]
       /\ UNCHANGED <<otherVars, dest, dirs, calls>>

\* one round of io.Copy(blobFile, tee): a Read of the stream through the tee,
\* then a Write to the temporary file
PutBlobCopy(p, ok) ==
    LET c == proc[p]
    IN /\ c.op = "PutBlob" /\ c.pc = "copy"
       /\ IF c.pos = c.errAt
          THEN \* the stream returns an error
               /\ ok
               /\ proc' = [proc EXCEPT ![p].err = "read", ![p].pc = "defer"]
               /\ files' = files
          ELSE IF c.pos = Len(c.stream)
          THEN \* io.EOF
               /\ ok
               /\ proc' = [proc EXCEPT ![p].size = c.pos, ![p].pc = "sync"]
               /\ files' = files
          ELSE LET b == c.stream[c.pos + 1]
               IN IF ok
                  THEN /\ files' = [files EXCEPT ![c.blobFile].data = Append(@, b)]
                       /\ proc' = [proc EXCEPT ![p].h = Sha256Write(c.h, b),
                                               ![p].pos = c.pos + 1]
                  ELSE /\ files' = files
                       /\ proc' = [proc EXCEPT ![p].h = Sha256Write(c.h, b),
                                               ![p].err = "write", ![p].pc = "defer"]
       /\ UNCHANGED <<otherVars, dest, dirs, calls>>

\* blobFile.Sync()
PutBlobSync(p, ok) ==
    /\ proc[p].op = "PutBlob" /\ proc[p].pc = "sync"
    /\ proc' = IF ok THEN [proc EXCEPT ![p].pc = "chmod"]
               ELSE [proc EXCEPT ![p].err = "sync", ![p].pc = "defer"]
    /\ UNCHANGED <<otherVars, dest, files, dirs, calls>>

\* PutBlob refusing a stream whose digest is not the one the caller expects
PutBlobChmodVerifiesDigest(p, ok) ==
    LET c == proc[p]
        digest == ComputedDigest(c.h)
        final == FinalBlobPath(digest)
        mismatch == c.expected # <<>>
                      /\ c.expected # <<"sha256", ":", HexEncodeToString(Sha256Sum(c.h))>>
    IN /\ c.op = "PutBlob" /\ c.pc = "chmod"
       /\ IF ~ok
          THEN /\ proc' = [proc EXCEPT ![p].err = "chmod", ![p].pc = "defer"]
               /\ files' = files
          ELSE /\ files' = [files EXCEPT ![c.blobFile].mode = Mode0644]
               /\ proc' = IF mismatch
                          THEN [proc EXCEPT ![p].err = "digest mismatch", ![p].pc = "defer"]
                          ELSE IF final.err # ""
                          THEN [proc EXCEPT ![p].err = final.err, ![p].pc = "defer"]
                          ELSE [proc EXCEPT ![p].digest = digest,
                                            ![p].pc = IF dest = "dir" THEN "rename" ELSE "stat"]
       /\ UNCHANGED <<otherVars, dest, dirs, calls>>

\* blobFile.Chmod(0644), then the digest and the final path are computed
PutBlobChmod(p, ok) ==
    LET c == proc[p]
        digest == ComputedDigest(c.h)
        final == FinalBlobPath(digest)
    IN /\ c.op = "PutBlob" /\ c.pc = "chmod"
       /\ IF ~ok
          THEN /\ proc' = [proc EXCEPT ![p].err = "chmod", ![p].pc = "defer"]
               /\ files' = files
          ELSE /\ files' = [files EXCEPT ![c.blobFile].mode = Mode0644]
               /\ proc' = IF final.err # ""
                          THEN [proc EXCEPT ![p].err = final.err, ![p].pc = "defer"]
                          ELSE [proc EXCEPT ![p].digest = digest,
                                            ![p].pc = IF dest = "dir" THEN "rename" ELSE "stat"]
       /\ UNCHANGED <<otherVars, dest, dirs, calls>>

\* PutBlob keeping a blob that is already at the final path, and putting the
\* new file next to it
PutBlobRenameKeepsBoth(p, ok) ==
    LET c == proc[p]
        final == FinalBlobPath(c.digest).path
        other == [final EXCEPT ![Len(final)] = @ \o ".1"]
        target == IF Exists(final) THEN other ELSE final
    IN /\ c.op = "PutBlob" /\ c.pc = "rename"
       /\ IF ok /\ DirExists(Dir(final)) /\ Exists(c.blobFile)
          THEN /\ files' = WithoutFile(WithFile(files, target, files[c.blobFile]), c.blobFile)
               /\ proc' = [proc EXCEPT ![p].succeeded = TRUE, ![p].pc = "defer"]
          ELSE /\ files' = files
               /\ proc' = [proc EXCEPT ![p].err = "rename", ![p].pc = "defer"]
       /\ UNCHANGED <<otherVars, dest, dirs, calls>>

\* os.Rename(blobFile.Name(), blobPath)
PutBlobRename(p, ok) ==
    LET c == proc[p]
        final == FinalBlobPath(c.digest).path
    IN /\ c.op = "PutBlob" /\ c.pc = "rename"
       /\ IF ok /\ DirExists(Dir(final)) /\ Exists(c.blobFile)
          THEN /\ files' = WithoutFile(WithFile(files, final, files[c.blobFile]), c.blobFile)
               /\ proc' = [proc EXCEPT ![p].succeeded = TRUE, ![p].pc = "defer"]
          ELSE /\ files' = files
               /\ proc' = [proc EXCEPT ![p].err = "rename", ![p].pc = "defer"]
       /\ UNCHANGED <<otherVars, dest, dirs, calls>>

\* the deferred function without its os.Remove
PutBlobDeferredKeepsTemp(p) ==
    LET c == proc[p]
    IN /\ c.op = "PutBlob" /\ c.pc = "defer"
       /\ files' = files
       /\ proc' = [proc EXCEPT ![p] =
                      Return(p, IF c.err = ""
                                THEN [digest |-> c.digest, size |-> c.size, err |-> ""]
                                ELSE [digest |-> <<>>, size |-> -1, err |-> c.err])]
       /\ UNCHANGED <<otherVars, dest, dirs, calls>>

\* the deferred function: blobFile.Close(), and os.Remove(blobFile.Name()) unless
\* succeeded; then PutBlob returns
PutBlobDeferred(p) ==
    LET c == proc[p]
    IN /\ c.op = "PutBlob" /\ c.pc = "defer"
       /\ files' = IF ~c.succeeded /\ Exists(c.blobFile)
                   THEN WithoutFile(files, c.blobFile) ELSE files
       /\ proc' = [proc EXCEPT ![p] =
                      Return(p, IF c.err = ""
                                THEN [digest |-> c.digest, size |-> c.size, err |-> ""]
                                ELSE [digest |-> <<>>, size |-> -1, err |-> c.err])]
       /\ UNCHANGED <<otherVars, dest, dirs, calls>>

(* ------------------------------ ensureParentDirectoryExists ----------- *)

\* the path whose parent the call of p is ensuring
EnsuredPath(c) ==
    IF c.op = "PutBlob" THEN FinalBlobPath(c.digest).path ELSE descriptorPath(Tag)

\* os.Stat(parent): MkdirAll follows only when the parent does not exist
EnsureParentStat(p) ==
    LET c == proc[p]
    IN /\ c.pc = "stat"
       /\ proc' = IF ~DirExists(Dir(EnsuredPath(c)))
                  THEN [proc EXCEPT ![p].pc = "mkdirall"]
                  ELSE IF c.op = "PutBlob"
                  THEN [proc EXCEPT ![p].pc = "rename"]
                  ELSE [proc EXCEPT ![p].pc = "open", ![p].wf = "desc"]
       /\ UNCHANGED <<otherVars, dest, files, dirs, calls>>

\* os.MkdirAll(parent, 0755)
EnsureParentMkdirAll(p, ok) ==
    LET c == proc[p]
    IN /\ c.pc = "mkdirall"
       /\ IF ok
          THEN /\ dirs' = dirs \cup Ancestors(Dir(EnsuredPath(c)))
               /\ proc' = IF c.op = "PutBlob"
                          THEN [proc EXCEPT ![p].pc = "rename"]
                          ELSE [proc EXCEPT ![p].pc = "open", ![p].wf = "desc"]
          ELSE /\ dirs' = dirs
               /\ proc' = IF c.op = "PutBlob"
                          THEN [proc EXCEPT ![p].err = "mkdir", ![p].pc = "defer"]
                          ELSE [proc EXCEPT ![p] =
                                   Return(p, [digest |-> <<>>, size |-> 0, err |-> "mkdir"])]
       /\ UNCHANGED <<otherVars, dest, files, calls>>

(* ------------------------------ ioutil.WriteFile ----------------------- *)

\* the file the WriteFile in progress writes
WritePath(c) ==
    CASE c.wf = "manifest" -> manifestPath
      [] c.wf = "blob" -> blobPath(c.digest).path
      [] c.wf = "layout" -> ociLayoutPath
      [] c.wf = "signature" -> signaturePath(c.i)
      [] OTHER -> descriptorPath(Tag)

\* the data the WriteFile in progress writes
WriteData(c) ==
    CASE c.wf = "manifest" -> c.m
      [] c.wf = "blob" -> c.ociMan
      [] c.wf = "layout" -> OCILayout
      [] c.wf = "signature" -> c.signatures[c.i + 1]
      [] OTHER -> c.data

\* PutSignatures returning nil after its first write
NextSignatureOnlyFirst(p, err) ==
    Return(p, [digest |-> <<>>, size |-> 0, err |-> err])

\* WriteFile of a signature returned err: PutSignatures returns it, or goes on
\* to the next signature of the list, or returns nil after the last
NextSignature(p, err) ==
    LET c == proc[p]
    IN IF err # ""
       THEN Return(p, [digest |-> <<>>, size |-> 0, err |-> err])
       ELSE IF c.i + 1 < Len(c.signatures)
       THEN [c EXCEPT !.i = c.i + 1, !.pc = "open", !.err = ""]
       ELSE Return(p, [digest |-> <<>>, size |-> 0, err |-> ""])

\* PutManifest going on to its next write whatever WriteFile returned
AfterWriteFileIgnoresError(p, err) ==
    LET c == proc[p]
    IN IF c.wf = "signature"
       THEN NextSignature(p, err)
       ELSE IF c.wf \in {"manifest", "desc"}
       THEN Return(p, [digest |-> <<>>, size |-> 0, err |-> err])
       ELSE IF c.wf = "blob"
       THEN [c EXCEPT !.wf = "layout", !.pc = "open", !.err = ""]
       ELSE [c EXCEPT !.pc = "stat", !.err = ""]

\* WriteFile returned err: PutManifest returns it, or goes on to its next write
AfterWriteFile(p, err) ==
    LET c == proc[p]
    IN IF c.wf = "signature"
       THEN NextSignature(p, err)
       ELSE IF err # "" \/ c.wf \in {"manifest", "desc"}
       THEN Return(p, [digest |-> <<>>, size |-> 0, err |-> err])
       ELSE IF c.wf = "blob"
       THEN [c EXCEPT !.wf = "layout", !.pc = "open", !.err = ""]
       ELSE [c EXCEPT !.pc = "stat", !.err = ""]

\* os.OpenFile(filename, O_WRONLY|O_CREATE|O_TRUNC, perm): the file is created
\* empty, or truncated when it exists
WriteFileOpen(p, ok) ==
    LET c == proc[p]
        path == WritePath(c)
    IN /\ c.op \in {"PutManifest", "PutSignatures"} /\ c.pc = "open"
       /\ IF ok /\ DirExists(Dir(path))
          THEN /\ files' = WithFile(files, path,
                                    [data |-> <<>>,
                                     mode |-> IF Exists(path) THEN files[path].mode ELSE Mode0644])
               /\ proc' = [proc EXCEPT ![p].pc = "write"]
          ELSE /\ files' = files
               /\ proc' = [proc EXCEPT ![p] = AfterWriteFile(p, "open")]
       /\ UNCHANGED <<otherVars, dest, dirs, calls>>

\* f.Write(data): n bytes reach the file, and fewer than len(data) is an error
WriteFileWrite(p, n) ==
    LET c == proc[p]
        data == WriteData(c)
    IN /\ c.op \in {"PutManifest", "PutSignatures"} /\ c.pc = "write"
       /\ n \in 0..Len(data)
       /\ files' = [files EXCEPT ![WritePath(c)].data = Prefix(data, n)]
       /\ proc' = [proc EXCEPT ![p].pc = "close",
                               ![p].err = IF n < Len(data) THEN "short write" ELSE ""]
       /\ UNCHANGED <<otherVars, dest, dirs, calls>>

\* f.Close(), whose error WriteFile returns when the write had none
WriteFileClose(p, ok) ==
    LET c == proc[p]
        err == IF c.err # "" THEN c.err ELSE IF ok THEN "" ELSE "close"
    IN /\ c.op \in {"PutManifest", "PutSignatures"} /\ c.pc = "close"
       /\ proc' = [proc EXCEPT ![p] = AfterWriteFile(p, err)]
       /\ UNCHANGED <<otherVars, dest, files, dirs, calls>>

(* ------------------------------ PutManifest ---------------------------- *)

\* dirImageDestination.PutManifest up to its WriteFile
DirPutManifest(call) == [call EXCEPT !.pc = "open", !.wf = "manifest"]

\* PutManifest describing the manifest it was given in place of the one it stores
OciPutManifestDescribesInput(call) ==
    LET cm == createManifest(call.m)
        dg == ManifestDigest(cm.b)
        given == ManifestDigest(call.m)
        desc == [Digest |-> given.digest, MediaType |-> cm.mt, Size |-> Len(call.m)]
        bp == blobPath(dg.digest)
        fail(e) == [call EXCEPT !.pc = "done",
                                !.ret = [digest |-> <<>>, size |-> 0, err |-> e]]
    IN IF cm.err # "" THEN fail(cm.err)
       ELSE IF dg.err # "" THEN fail(dg.err)
       ELSE IF bp.err # "" THEN fail(bp.err)
       ELSE [call EXCEPT !.ociMan = cm.b, !.mt = cm.mt, !.digest = dg.digest,
                         !.data = MarshalDesc(desc), !.pc = "open", !.wf = "blob"]

\* ociImageDestination.PutManifest up to its first WriteFile
OciPutManifest(call) ==
    LET cm == createManifest(call.m)
        dg == ManifestDigest(cm.b)
        desc == [Digest |-> dg.digest, MediaType |-> cm.mt, Size |-> Len(cm.b)]
        bp == blobPath(dg.digest)
        fail(e) == [call EXCEPT !.pc = "done",
                                !.ret = [digest |-> <<>>, size |-> 0, err |-> e]]
    IN IF cm.err # "" THEN fail(cm.err)
       ELSE IF dg.err # "" THEN fail(dg.err)
       ELSE IF bp.err # "" THEN fail(bp.err)
       ELSE [call EXCEPT !.ociMan = cm.b, !.mt = cm.mt, !.digest = dg.digest,
                         !.data = MarshalDesc(desc), !.pc = "open", !.wf = "blob"]

\* PutManifest is called with the manifest m
PutManifestBegin(p, m) ==
    /\ CanBegin(p)
    /\ calls' = calls + 1
    /\ LET call == [Idle EXCEPT !.op = "PutManifest", !.m = m,
                                !.before = Snapshot]
       IN proc' = [proc EXCEPT ![p] =
                      IF dest = "dir" THEN DirPutManifest(call) ELSE OciPutManifest(call)]
    /\ UNCHANGED <<otherVars, dest, files, dirs>>

\* ociImageDestination.SupportedManifestMIMETypes
SupportedManifestMIMETypes == <<MediaTypeImageManifest, DockerV2Schema2MIMEType>>

(* ------------------------------ specifications ------------------------- *)

\* a step of the call of p that follows its first
Continue(p) ==
    \/ \E ok \in BOOLEAN : PutBlobCopy(p, ok)
    \/ \E ok \in BOOLEAN : PutBlobSync(p, ok)
    \/ \E ok \in BOOLEAN : PutBlobChmod(p, ok)
    \/ \E ok \in BOOLEAN : PutBlobRename(p, ok)
    \/ PutBlobDeferred(p)
    \/ EnsureParentStat(p)
    \/ \E ok \in BOOLEAN : EnsureParentMkdirAll(p, ok)

BeginPutBlob(p, snap) ==
    \E stream \in Streams, ok \in BOOLEAN :
        \E errAt \in -1..Len(stream) : PutBlobTempFile(p, stream, <<>>, errAt, ok, snap)

ManifestStep(p) ==
    \/ \E m \in Manifests : PutManifestBegin(p, m)
    \/ \E ok \in BOOLEAN : WriteFileOpen(p, ok)
    \/ \E n \in 0..12 : WriteFileWrite(p, n)
    \/ \E ok \in BOOLEAN : WriteFileClose(p, ok)

\* one caller, one call at a time
Next == BeginPutBlob(1, Snapshot) \/ Continue(1) \/ ManifestStep(1)

Init == FsInit /\ OtherIdle

vars == <<fsVars, otherVars>>

Spec == Init /\ [][Next]_vars

\* PutBlob calls of several callers, one call each, interleaved step by step
NextConcurrent ==
    \E p \in Procs : (proc[p].pc = "idle" /\ BeginPutBlob(p, NoSnapshot)) \/ Continue(p)

SpecConcurrent == Init /\ [][NextConcurrent]_vars

\* one caller, PutBlob calls only
NextPutBlob == BeginPutBlob(1, Snapshot) \/ Continue(1)

SpecPutBlob == Init /\ [][NextPutBlob]_vars

(* ------------------------------ registry source ----------------------- *)

\* s.ref.RemoteName() and s.tag of the source
RemoteName == "library/busybox"
SourceTag == "latest"

\* fmt.Sprintf(manifestURL, name, reference)
ManifestURL(name, reference) == <<name, "/manifests/", reference>>

StatusOK == 200
StatusAccepted == 202
StatusNotFound == 404

\* fmt.Sprintf(blobsURL, name, digest)
BlobsURL(name, digest) == <<name, "/blobs/", digest>>

\* strconv.ParseInt(s, 10, 64)
ParseInt(s) == IF IsNumeral(s) THEN [n |-> Atoi(s), err |-> ""]
               ELSE [n |-> 0, err |-> "invalid syntax"]

\* what the registry may answer: a status, the headers the source reads, a
\* body, and whether reading the body to its end succeeds
Statuses == {StatusOK, StatusAccepted, 401, StatusNotFound, 500}

Responses ==
    [status : Statuses,
     contentType : {DockerV2Schema2MIMEType, ""},
     digest : {"sha256:m", ""},
     contentLength : {""},
     body : {<<>>, <<"a", "b">>},
     readOK : BOOLEAN]

\* what the registry may answer to the GET of a blob: GetBlob reads the status
\* and Content-Length, absent, a number, or not a number
BlobResponses ==
    [status : Statuses,
     contentType : {""},
     digest : {""},
     contentLength : {"", "7", "x"},
     body : {<<>>, <<"a", "b">>},
     readOK : {TRUE}]

NoResponse ==
    [status |-> 0, contentType |-> "", digest |-> "", contentLength |-> "",
     body |-> <<>>, readOK |-> FALSE]

\* the Accept lists a caller of GetManifest passes
MimeLists ==
    {<<>>, <<DockerV2Schema2MIMEType>>,
     <<DockerV2Schema1SignedMIMEType, DockerV2Schema1MIMEType, DockerV2Schema2MIMEType>>}

\* s.c.makeRequest(method, url, headers, nil) returned res and a nil error, or
\* (with ok false) an error: the exchange as the wire saw it.  open: the
\* response body is not closed.
Exchange(method, url, accept, ok, res) ==
    [method |-> method, url |-> url, accept |-> accept, answered |-> ok,
     res |-> IF ok THEN res ELSE NoResponse, open |-> ok]

\* the deferred Close of every body the call obtained
CloseBodies(w) == [i \in 1..Len(w) |-> [w[i] EXCEPT !.open = FALSE]]

SourceReturn(r) == [sc EXCEPT !.pc = "done", !.ret = r]

SourceError(e) == SourceReturn([manblob |-> <<>>, mt |-> "", err |-> e])

\* GetManifest up to the return of makeRequest
GetManifestRequest(mimetypes, ok, res) ==
    /\ sc.pc \in {"idle", "done"}
    /\ wire' = <<Exchange("GET", ManifestURL(RemoteName, SourceTag), mimetypes, ok, res)>>
    /\ sc' = IF ok
             THEN [SourceIdle EXCEPT !.op = "GetManifest", !.pc = "readall",
                                     !.mimetypes = mimetypes]
             ELSE [SourceIdle EXCEPT !.op = "GetManifest", !.pc = "done",
                                     !.mimetypes = mimetypes,
                                     !.ret = [manblob |-> <<>>, mt |-> "",
                                              err |-> ErrorOf("transport")]]
    /\ UNCHANGED <<fsVars, disp>>

\* GetManifest accepting every status below 400
GetManifestReadAllBelow400 ==
    LET res == wire[1].res
    IN /\ sc.op = "GetManifest" /\ sc.pc = "readall"
       /\ sc' = IF ~res.readOK THEN SourceError(ErrorOf("read"))
                ELSE IF res.status >= 400
                THEN SourceError([kind |-> "errFetchManifest", statusCode |-> res.status,
                                  body |-> res.body])
                ELSE SourceReturn([manblob |-> res.body, mt |-> res.contentType,
                                   err |-> NoError])
       /\ wire' = CloseBodies(wire)
       /\ UNCHANGED <<fsVars, disp>>

\* GetManifest from ioutil.ReadAll(res.Body) to its return
GetManifestReadAll ==
    LET res == wire[1].res
    IN /\ sc.op = "GetManifest" /\ sc.pc = "readall"
       /\ sc' = IF ~res.readOK THEN SourceError(ErrorOf("read"))
                ELSE IF res.status # StatusOK
                THEN SourceError([kind |-> "errFetchManifest", statusCode |-> res.status,
                                  body |-> res.body])
                ELSE SourceReturn([manblob |-> res.body, mt |-> res.contentType,
                                   err |-> NoError])
       /\ wire' = CloseBodies(wire)
       /\ UNCHANGED <<fsVars, disp>>

\* Delete up to the return of its GET
DeleteGet(ok, res) ==
    /\ sc.pc \in {"idle", "done"}
    /\ wire' = <<Exchange("GET", ManifestURL(RemoteName, SourceTag),
                          <<DockerV2Schema2MIMEType>>, ok, res)>>
    /\ sc' = IF ok
             THEN [SourceIdle EXCEPT !.op = "Delete", !.pc = "readget"]
             ELSE [SourceIdle EXCEPT !.op = "Delete", !.pc = "done",
                                     !.ret = [manblob |-> <<>>, mt |-> "",
                                              err |-> ErrorOf("transport")]]
    /\ UNCHANGED <<fsVars, disp>>

\* Delete from ioutil.ReadAll(get.Body) through the switch on get.StatusCode
DeleteReadGet ==
    LET get == wire[1].res
    IN /\ sc.op = "Delete" /\ sc.pc = "readget"
       /\ IF ~get.readOK
          THEN sc' = SourceError(ErrorOf("read")) /\ wire' = CloseBodies(wire)
          ELSE IF get.status = StatusOK
          THEN sc' = [sc EXCEPT !.pc = "delete"] /\ wire' = wire
          ELSE IF get.status = StatusNotFound
          THEN sc' = SourceError(ErrorOf("Unable to delete")) /\ wire' = CloseBodies(wire)
          ELSE /\ sc' = SourceError([kind |-> "Failed to delete", statusCode |-> get.status,
                                     body |-> get.body])
               /\ wire' = CloseBodies(wire)
       /\ UNCHANGED <<fsVars, disp>>

\* Delete addressing the manifest by the tag again
DeleteDeleteByTag(ok, res) ==
    /\ sc.op = "Delete" /\ sc.pc = "delete"
    /\ LET w == Append(wire, Exchange("DELETE", ManifestURL(RemoteName, SourceTag),
                                      <<DockerV2Schema2MIMEType>>, ok, res))
       IN IF ok
          THEN sc' = [sc EXCEPT !.pc = "readdelete"] /\ wire' = w
          ELSE sc' = SourceError(ErrorOf("transport")) /\ wire' = CloseBodies(w)
    /\ UNCHANGED <<fsVars, disp>>

\* Delete from the Docker-Content-Digest header to the return of its DELETE
DeleteDelete(ok, res) ==
    /\ sc.op = "Delete" /\ sc.pc = "delete"
    /\ LET digest == wire[1].res.digest
           w == Append(wire, Exchange("DELETE", ManifestURL(RemoteName, digest),
                                      <<DockerV2Schema2MIMEType>>, ok, res))
       IN IF ok
          THEN sc' = [sc EXCEPT !.pc = "readdelete"] /\ wire' = w
          ELSE sc' = SourceError(ErrorOf("transport")) /\ wire' = CloseBodies(w)
    /\ UNCHANGED <<fsVars, disp>>

\* Delete from ioutil.ReadAll(delete.Body) to its return
DeleteReadDelete ==
    LET delete == wire[2].res
    IN /\ sc.op = "Delete" /\ sc.pc = "readdelete"
       /\ sc' = IF ~delete.readOK THEN SourceError(ErrorOf("read"))
                ELSE IF delete.status # StatusAccepted
                THEN SourceError([kind |-> "Failed to delete", statusCode |-> delete.status,
                                  body |-> delete.body])
                ELSE SourceReturn([manblob |-> <<>>, mt |-> "", err |-> NoError])
       /\ wire' = CloseBodies(wire)
       /\ UNCHANGED <<fsVars, disp>>

\* GetBlob: the body of a response that is not 200 is neither read nor closed,
\* the body of a 200 is returned open with the size of Content-Length
GetBlob(digest, ok, res) ==
    LET size == ParseInt(res.contentLength)
        call == [SourceIdle EXCEPT !.op = "GetBlob", !.pc = "done"]
    IN /\ sc.pc \in {"idle", "done"}
       /\ wire' = <<Exchange("GET", BlobsURL(RemoteName, digest), <<>>, ok, res)>>
       /\ sc' = IF ~ok
                THEN [call EXCEPT !.ret.err = ErrorOf("transport")]
                ELSE IF res.status # StatusOK
                THEN [call EXCEPT !.ret.err = [kind |-> "Invalid status code",
                                               statusCode |-> res.status, body |-> <<>>]]
                ELSE [call EXCEPT !.body = "res.Body",
                                  !.size = IF size.err # "" THEN 0 ELSE size.n]
       /\ UNCHANGED <<fsVars, disp>>

NextDocker ==
    \/ \E ok \in BOOLEAN, res \in BlobResponses : GetBlob("sha256:m", ok, res)
    \/ \E mimetypes \in MimeLists, ok \in BOOLEAN, res \in Responses :
          GetManifestRequest(mimetypes, ok, res)
    \/ GetManifestReadAll
    \/ \E ok \in BOOLEAN, res \in Responses : DeleteGet(ok, res)
    \/ DeleteReadGet
    \/ \E ok \in BOOLEAN, res \in Responses : DeleteDelete(ok, res)
    \/ DeleteReadDelete

InitDocker == FsIdle /\ OtherIdle

SpecDocker == InitDocker /\ [][NextDocker]_vars

(* ------------------------------ manifest dispatch ---------------------- *)

DockerV2Schema1MediaType == DockerV2Schema1MIMEType
DockerV2Schema1SignedMediaType == DockerV2Schema1SignedMIMEType
DockerV2Schema2MediaType == DockerV2Schema2MIMEType
DockerV2ListMediaType == DockerV2ListMIMEType

\* manifestInstanceFromBlob: the constructor the blob is handed to (the variant
\* it builds), or the error
manifestInstanceFromBlob(manblob, mt) ==
    CASE mt \in {DockerV2Schema1MediaType, DockerV2Schema1SignedMediaType, "application/json"} ->
            [variant |-> "manifestSchema1FromManifest", err |-> ""]
      [] mt = DockerV2Schema2MediaType ->
            [variant |-> "manifestSchema2FromManifest", err |-> ""]
      [] mt = DockerV2ListMediaType ->
            [variant |-> "manifestSchema2FromManifestList", err |-> ""]
      [] mt = "" ->
            [variant |-> "nil", err |-> "could not guess manifest media type"]
      [] OTHER ->
            [variant |-> "nil", err |-> "unsupported manifest media type " \o mt]

\* the MIME types a source may report for a manifest
MimeInputs ==
    {DockerV2Schema1MediaType, DockerV2Schema1SignedMediaType, DockerV2Schema2MediaType,
     DockerV2ListMediaType, MediaTypeImageManifest, MediaTypeImageManifestList,
     "application/json", "", "text/plain", "application/octet-stream",
     MediaTypeImageSerialization, DockerConfigMIMEType}

\* manifestInstanceFromBlob is called on the input
Dispatch ==
    /\ disp.out = NotCalled
    /\ disp' = [disp EXCEPT !.out = manifestInstanceFromBlob(disp.manblob, disp.mt)]
    /\ UNCHANGED <<fsVars, sc, wire>>

InitImage ==
    /\ FsIdle
    /\ sc = SourceIdle
    /\ wire = <<>>
    /\ disp \in [mt : MimeInputs, manblob : Manifests, out : {NotCalled}]

SpecImage == InitImage /\ [][Dispatch]_vars

(* ------------------------------ claims: vocabulary -------------------- *)

Returned(p, op) == proc[p].pc = "done" /\ proc[p].op = op

InCall(p) == proc[p].pc \notin {"idle", "done"}

AllTempNames == TempNames("dir-put-blob") \cup TempNames("oci-put-blob")

\* the temporary files in the destination
TempFiles == {path \in DOMAIN files : path \in AllTempNames}

\* the final content-addressed path of the content B, by the layouts
BlobPathOf(B) ==
    IF dest = "dir" THEN <<HexSha256(B)>> ELSE <<"blobs", "/", "sha256", "/", HexSha256(B)>>

\* path is a final content-addressed path of the destination
ContentAddressed(path) ==
    IF dest = "dir"
    THEN Len(path) = 1 /\ path \notin AllTempNames /\ path # <<"manifest.json">>
    ELSE Len(path) = 5 /\ path[1] = "blobs"

\* every blob under a final name is the content the name is the digest of
Committed == \A path \in DOMAIN files : ContentAddressed(path) => path = BlobPathOf(files[path].data)

\* a call that has not yet renamed holds what it copied so far in its temporary file
PartialInTemp(p) ==
    proc[p].pc \in {"copy", "sync", "chmod", "stat", "mkdirall", "rename"}
        => /\ proc[p].blobFile \in AllTempNames
           /\ Exists(proc[p].blobFile)
           /\ files[proc[p].blobFile].data = Prefix(proc[p].stream, proc[p].pos)

RefPath == <<"refs", "/", "latest">>

(* ------------------------------ C1 ------------------------------------- *)

\* C1: a PutBlob whose stream returns a read error (after any number of bytes)
\* returns an error, and the files of the destination are those before the
\* call: no blob under a final name was added, no temporary file remains.
C1_ReadErrorLeavesNothing ==
    \A p \in Procs :
        (Returned(p, "PutBlob") /\ proc[p].errAt # -1)
            => /\ proc[p].ret.err # ""
               /\ proc[p].ret.digest = <<>>
               /\ files = proc[p].before.files
               /\ TempFiles = {}

\* a stream failed after at least one byte was copied, in a destination that
\* already held a blob
C1_Witness ==
    \E p \in Procs :
        /\ Returned(p, "PutBlob")
        /\ proc[p].ret.err = "read"
        /\ proc[p].errAt >= 1
        /\ \E path \in DOMAIN files : ContentAddressed(path)

(* ------------------------------ C2 ------------------------------------- *)

\* C2: a successful PutBlob of the bytes B returns the digest "sha256:" followed
\* by hex(sha256(B)) and the size len(B), and the file at the final
\* content-addressed path holds B.
C2_DigestSizeContent ==
    \A p \in Procs :
        (Returned(p, "PutBlob") /\ proc[p].ret.err = "")
            => /\ proc[p].ret.digest = <<"sha256", ":", HexSha256(proc[p].stream)>>
               /\ proc[p].ret.size = Len(proc[p].stream)
               /\ Exists(BlobPathOf(proc[p].stream))
               /\ files[BlobPathOf(proc[p].stream)].data = proc[p].stream

(* ------------------------------ C3 ------------------------------------- *)

\* a file under a final content-addressed name appears or changes only by the
\* rename of a call that read its whole stream, and holds that stream
OnlyRenameCommits ==
    \A path \in DOMAIN files' :
        (ContentAddressed(path)
            /\ (path \notin DOMAIN files \/ files'[path].data # files[path].data))
        => \E p \in Procs :
              /\ proc[p].pc = "rename"
              /\ proc[p].errAt = -1
              /\ proc[p].pos = Len(proc[p].stream)
              /\ files'[path].data = proc[p].stream

\* C3: during and after any sequence of PutBlob calls, failing ones included,
\* every file at a final content-addressed path holds a complete input stream
\* whose SHA-256 is the file's name; a partially written blob exists only
\* under a temporary name.
C3_OnlyCompleteBlobs ==
    /\ [](Committed /\ \A p \in Procs : PartialInTemp(p))
    /\ [][OnlyRenameCommits]_vars

\* a committed blob beside the partial temporary file of a later call
C3_Witness ==
    /\ \E path \in DOMAIN files : ContentAddressed(path)
    /\ \E p \in Procs :
          /\ proc[p].pc = "copy"
          /\ proc[p].pos >= 1
          /\ proc[p].pos < Len(proc[p].stream)

(* ------------------------------ C4 ------------------------------------- *)

\* the files a PutManifest call writes
WrittenBy(c) ==
    IF dest = "dir" THEN {"manifest"}
    ELSE IF c.digest = <<>> THEN {}
    ELSE {"blob", "layout", "desc"}

\* C4: in every state of a PutManifest call, each file it writes is absent,
\* holds its complete previous content, or holds its complete new content.
C4_ManifestAtomic ==
    \A p \in Procs :
        proc[p].op = "PutManifest"
            => \A w \in WrittenBy(proc[p]) :
                  LET c == [proc[p] EXCEPT !.wf = w]
                      path == WritePath(c)
                  IN \/ ~Exists(path)
                     \/ /\ path \in DOMAIN c.before.files
                        /\ files[path].data = c.before.files[path].data
                     \/ files[path].data = WriteData(c)

(* ------------------------------ C5 ------------------------------------- *)

\* refs/<tag> is created or changed by this step
RefChanged ==
    /\ RefPath \in DOMAIN files'
    /\ RefPath \notin DOMAIN files \/ files'[RefPath] # files[RefPath]

\* refs/<tag> is as the call of p found it
RefUnchanged(p) ==
    /\ Exists(RefPath) <=> RefPath \in DOMAIN proc[p].before.files
    /\ Exists(RefPath) => files[RefPath] = proc[p].before.files[RefPath]

\* the manifest blob and oci-layout are completely written
BlobAndLayoutWritten(c) ==
    /\ Exists(BlobPathOf(c.ociMan))
    /\ files[BlobPathOf(c.ociMan)].data = c.ociMan
    /\ Exists(<<"oci-layout">>)
    /\ files[<<"oci-layout">>].data = OCILayout

\* a step touches refs/<tag> only in the descriptor write of a PutManifest
\* whose blob and oci-layout are written
DescriptorLast ==
    (dest = "oci" /\ RefChanged)
        => \E p \in Procs :
              /\ proc[p].op = "PutManifest"
              /\ proc[p].wf = "desc"
              /\ BlobAndLayoutWritten(proc[p])

\* a PutManifest that ended before its descriptor write returned an error and
\* left refs/<tag> alone; one that succeeded wrote the descriptor, after the rest
FailureKeepsRef ==
    \A p \in Procs :
        (dest = "oci" /\ Returned(p, "PutManifest"))
            => /\ proc[p].wf # "desc"
                    => proc[p].ret.err # "" /\ RefUnchanged(p)
               /\ proc[p].ret.err = ""
                    => /\ proc[p].wf = "desc"
                       /\ Exists(RefPath)
                       /\ files[RefPath].data = proc[p].data
                       /\ BlobAndLayoutWritten(proc[p])

\* C5: OCI PutManifest writes refs/<tag> last: whenever it is written, the
\* manifest blob and oci-layout are already written, and a PutManifest failing
\* at the conversion, the digest, the blob write or the oci-layout write
\* returns an error and leaves refs/<tag> unchanged.
C5_DescriptorWrittenLast == []FailureKeepsRef /\ [][DescriptorLast]_vars

\* a PutManifest succeeded over the descriptor of an earlier one
C5_Witness ==
    \E p \in Procs :
        /\ dest = "oci"
        /\ Returned(p, "PutManifest")
        /\ proc[p].ret.err = ""
        /\ RefPath \in DOMAIN proc[p].before.files
        /\ files[RefPath] # proc[p].before.files[RefPath]

(* ------------------------------ C6 ------------------------------------- *)

\* the call of p has a temporary file it has neither renamed nor removed
HoldsTemp(p) ==
    \/ proc[p].pc \in {"copy", "sync", "chmod", "stat", "mkdirall", "rename"}
    \/ proc[p].pc = "defer" /\ ~proc[p].succeeded

\* C6: for any interleaving of concurrent PutBlob calls on one destination,
\* the calls in progress have distinct temporary files, each holding what its
\* call copied; no partial blob is under a final name; and once all calls
\* returned, every successful call's blob is complete at its final path and
\* no temporary file remains.
C6_ConcurrentPutBlob ==
    /\ \A p, q \in Procs :
          (p # q /\ HoldsTemp(p) /\ HoldsTemp(q)) => proc[p].blobFile # proc[q].blobFile
    /\ \A p \in Procs : PartialInTemp(p)
    /\ Committed
    /\ (\A p \in Procs : ~InCall(p))
          => /\ TempFiles = {}
             /\ \A p \in Procs :
                   (Returned(p, "PutBlob") /\ proc[p].ret.err = "")
                       => /\ Exists(BlobPathOf(proc[p].stream))
                          /\ files[BlobPathOf(proc[p].stream)].data = proc[p].stream

\* two calls on the same content in flight: one has renamed, the other is about to
C6_Witness ==
    \E p, q \in Procs :
        /\ p # q
        /\ proc[p].pc = "rename"
        /\ proc[q].pc = "defer" /\ proc[q].succeeded
        /\ proc[p].stream = proc[q].stream
        /\ Len(proc[p].stream) >= 1

(* ------------------------------ C9 ------------------------------------- *)

\* out is the schema 2 document in with the OCI media types: the same
\* descriptors in the same order, digests and sizes kept
RewrittenToOCI(in, out) ==
    /\ Len(out) = Len(in)
    /\ out[2] = in[2]
    /\ out[3] = MediaTypeImageManifest
    /\ out[4] = MediaTypeImageSerializationConfig
    /\ \A k \in 1..((Len(in) - 6) \div 3) : out[4 + 3 * k] = MediaTypeImageSerialization
    /\ \A k \in 0..((Len(in) - 6) \div 3) :
          out[5 + 3 * k] = in[5 + 3 * k] /\ out[6 + 3 * k] = in[6 + 3 * k]

\* C9: OCI PutManifest stores a schema 2 manifest rewritten to the OCI media
\* types (manifest, config, every layer; order, digests and sizes kept), stores
\* an OCI v1 manifest unchanged, and fails on a schema 1 manifest, a schema 2
\* list, an OCI list and an unrecognized manifest without writing any file.
C9_ManifestConversion ==
    \A p \in Procs :
        (dest = "oci" /\ proc[p].op = "PutManifest")
            => LET c == proc[p]
                   stored == Returned(p, "PutManifest") /\ c.ret.err = ""
                                => /\ Exists(BlobPathOf(c.ociMan))
                                   /\ files[BlobPathOf(c.ociMan)].data = c.ociMan
               IN /\ c.m \in {Schema2Manifest, Schema2Untyped}
                     => /\ c.mt = MediaTypeImageManifest
                        /\ RewrittenToOCI(c.m, c.ociMan)
                        /\ stored
                  /\ c.m = OCIManifest
                     => /\ c.mt = MediaTypeImageManifest
                        /\ c.ociMan = c.m
                        /\ stored
                  /\ c.m \in {Schema1Manifest, Schema2List, OCIManifestList,
                              UnknownManifest, NotJSON}
                     => /\ c.pc = "done"
                        /\ c.ret.err # ""
                        /\ files = c.before.files
                        /\ dirs = c.before.dirs

\* a schema 2 manifest with two layers was converted and stored
C9_Witness ==
    \E p \in Procs :
        /\ dest = "oci"
        /\ Returned(p, "PutManifest")
        /\ proc[p].m = Schema2Manifest
        /\ proc[p].ret.err = ""

(* ------------------------------ C7 ------------------------------------- *)

\* the constructor of the variant the Docker MIME type mt stands for
VariantOf(mt) ==
    CASE mt = DockerV2Schema2MIMEType -> "manifestSchema2FromManifest"
      [] mt = DockerV2ListMIMEType -> "manifestSchema2FromManifestList"
      [] OTHER -> "manifestSchema1FromManifest"

OCIMIMETypes == {MediaTypeImageManifest, MediaTypeImageManifestList}

RecognizedMIMETypes ==
    {DockerV2Schema1MIMEType, DockerV2Schema1SignedMIMEType, DockerV2Schema2MIMEType,
     DockerV2ListMIMEType, MediaTypeImageManifest, MediaTypeImageManifestList,
     "application/json"}

\* C7: manifestInstanceFromBlob hands every recognized manifest MIME type
\* (schema 1, schema 1 signed, schema 2, schema 2 list, OCI v1 manifest, OCI v1
\* manifest list, application/json as schema 1) to its variant, fails on the
\* empty type with the unknown-MIME error and on every other type with the
\* unsupported-MIME error.
C7_DispatchByMIMEType ==
    disp.out # NotCalled
        => /\ disp.mt \in RecognizedMIMETypes
                => /\ disp.out.err = ""
                   /\ disp.out.variant # "nil"
                   /\ disp.mt \notin OCIMIMETypes => disp.out.variant = VariantOf(disp.mt)
           /\ disp.mt = ""
                => disp.out.err = "could not guess manifest media type"
           /\ disp.mt \notin RecognizedMIMETypes \cup {""}
                => disp.out.err = "unsupported manifest media type " \o disp.mt

(* ------------------------------ C8 ------------------------------------- *)

\* the protocol of Delete, in every state of a call: a DELETE is the second
\* request, after a GET of the tag's manifest (Accept: schema 2) answered 200,
\* and addresses the manifest by the digest header of that answer
DeleteProtocol ==
    sc.op = "Delete"
        => /\ Len(wire) \in 1..2
           /\ wire[1].method = "GET"
           /\ wire[1].url = ManifestURL(RemoteName, SourceTag)
           /\ wire[1].accept = <<DockerV2Schema2MIMEType>>
           /\ Len(wire) = 2
                => /\ wire[2].method = "DELETE"
                   /\ wire[1].answered /\ wire[1].res.status = StatusOK
                   /\ wire[2].url = ManifestURL(RemoteName, wire[1].res.digest)
                   /\ wire[2].url # ManifestURL(RemoteName, SourceTag)
           /\ (sc.pc = "done" /\ wire[1].answered /\ wire[1].res.status # StatusOK)
                => Len(wire) = 1 /\ sc.ret.err # NoError

\* the DELETE was answered 202
DeleteAccepted == Len(wire) = 2 /\ wire[2].answered /\ wire[2].res.status = StatusAccepted

\* C8 as stated: Delete returns success if and only if the DELETE response
\* status is 202.
C8_SuccessIffAccepted ==
    /\ DeleteProtocol
    /\ (sc.op = "Delete" /\ sc.pc = "done") => (sc.ret.err = NoError <=> DeleteAccepted)

\* C8, amended: Delete sends its one DELETE only after the GET returned 200, by
\* the digest of the GET's Docker-Content-Digest header; a GET answered
\* otherwise fails Delete without a DELETE; Delete returns success if and only
\* if the DELETE response status is 202 and its body was read without error.
C8_DeleteTwoSteps ==
    /\ DeleteProtocol
    /\ (sc.op = "Delete" /\ sc.pc = "done")
          => (sc.ret.err = NoError <=> (DeleteAccepted /\ wire[2].res.readOK))

\* a Delete returned success after a GET answered 200 with a digest
C8_Witness ==
    /\ sc.op = "Delete" /\ sc.pc = "done"
    /\ sc.ret.err = NoError
    /\ wire[1].res.digest = "sha256:m"

(* ------------------------------ C10 ------------------------------------ *)

\* the request of GetManifest carries the caller's list as its Accept header
AcceptIsCallersList ==
    /\ Len(wire) = 1
    /\ wire[1].method = "GET"
    /\ wire[1].url = ManifestURL(RemoteName, SourceTag)
    /\ wire[1].accept = sc.mimetypes

\* GetManifest returned the body with the response's Content-Type
ReturnsBody ==
    /\ sc.ret.err = NoError
    /\ sc.ret.manblob = wire[1].res.body
    /\ sc.ret.mt = wire[1].res.contentType

\* GetManifest returned no bytes and errFetchManifest{status, body}
ReturnsFetchError ==
    /\ sc.ret.manblob = <<>> /\ sc.ret.mt = ""
    /\ sc.ret.err = [kind |-> "errFetchManifest", statusCode |-> wire[1].res.status,
                     body |-> wire[1].res.body]

\* C10 as stated: GetManifest returns the body and the Content-Type if and
\* only if the status is 200, and errFetchManifest{status, body} for every
\* other status.
C10_BodyIffOK ==
    (sc.op = "GetManifest" /\ sc.pc = "done" /\ wire[1].answered)
        => /\ AcceptIsCallersList
           /\ ReturnsBody <=> wire[1].res.status = StatusOK
           /\ wire[1].res.status # StatusOK => ReturnsFetchError

\* C10, amended: the Accept header is the caller's list; when the response
\* body is read without error, GetManifest returns the body and the
\* Content-Type if and only if the status is 200 and errFetchManifest{status,
\* body} with no bytes for every other status; when reading the body fails it
\* returns that error and no bytes.
C10_GetManifest ==
    (sc.op = "GetManifest" => AcceptIsCallersList)
        /\ ((sc.op = "GetManifest" /\ sc.pc = "done" /\ wire[1].answered)
              => IF wire[1].res.readOK
                 THEN /\ ReturnsBody <=> wire[1].res.status = StatusOK
                      /\ wire[1].res.status # StatusOK => ReturnsFetchError
                 ELSE /\ sc.ret.err = ErrorOf("read")
                      /\ sc.ret.manblob = <<>>)

\* a 404 with a body came back as errFetchManifest
C10_Witness ==
    /\ sc.op = "GetManifest" /\ sc.pc = "done"
    /\ sc.ret.err.kind = "errFetchManifest"
    /\ sc.ret.err.statusCode = StatusNotFound
    /\ sc.ret.err.body # <<>>
    /\ sc.mimetypes # <<>>

(* ------------------------------ C11 ------------------------------------ *)

\* C11 as stated: when the registry answers the manifest GET with 404,
\* GetManifest fails with the error kind ManifestUnknown, a kind other than the
\* one it returns for every other failing status.
C11_ManifestUnknownOn404 ==
    (sc.op = "GetManifest" /\ sc.pc = "done" /\ wire[1].answered /\ wire[1].res.readOK
       /\ wire[1].res.status = StatusNotFound)
        => /\ sc.ret.err.kind = "ManifestUnknown"
           /\ sc.ret.err.kind # "errFetchManifest"

(* ------------------------------ PutSignatures, GetSignatures ----------- *)

\* the signatures a caller passes, opaque byte strings, and the lists of them
Signatures == {<<>>, <<"a">>, <<"a", "b">>}

SignatureLists == SeqsUpTo(Signatures, MaxSigs)

\* ociImageDestination.PutSignatures
OciPutSignatures(p, call) ==
    IF Len(call.signatures) # 0
    THEN [call EXCEPT !.pc = "done",
                      !.ret = [digest |-> <<>>, size |-> 0,
                               err |-> "Pushing signatures for OCI images is not supported"]]
    ELSE [call EXCEPT !.pc = "done", !.ret = [digest |-> <<>>, size |-> 0, err |-> ""]]

\* dirImageDestination.PutSignatures up to its first WriteFile
DirPutSignatures(p, call) ==
    IF Len(call.signatures) = 0
    THEN [call EXCEPT !.pc = "done", !.ret = [digest |-> <<>>, size |-> 0, err |-> ""]]
    ELSE [call EXCEPT !.pc = "open", !.wf = "signature", !.i = 0]

\* PutSignatures is called with the list signatures
PutSignaturesBegin(p, signatures) ==
    /\ CanBegin(p)
    /\ calls' = calls + 1
    /\ LET call == [Idle EXCEPT !.op = "PutSignatures", !.signatures = signatures,
                                !.before = Snapshot]
       IN proc' = [proc EXCEPT ![p] =
                      IF dest = "dir" THEN DirPutSignatures(p, call)
                      ELSE OciPutSignatures(p, call)]
    /\ UNCHANGED <<otherVars, dest, files, dirs>>

\* dockerImageSource.GetSignatures
GetSignatures ==
    /\ sc.pc \in {"idle", "done"}
    /\ sc' = [SourceIdle EXCEPT !.op = "GetSignatures", !.pc = "done", !.signatures = <<>>]
    /\ wire' = <<>>
    /\ UNCHANGED <<fsVars, disp>>

NextSignatures ==
    \/ \E signatures \in SignatureLists : PutSignaturesBegin(1, signatures)
    \/ \E ok \in BOOLEAN : WriteFileOpen(1, ok)
    \/ \E n \in 0..12 : WriteFileWrite(1, n)
    \/ \E ok \in BOOLEAN : WriteFileClose(1, ok)
    \/ GetSignatures

SpecSignatures == Init /\ [][NextSignatures]_vars

(* ------------------------------ C12 ------------------------------------ *)

\* the files the signatures of the list are stored in, in list order
SignaturePaths(signatures) == {signaturePath(k - 1) : k \in 1..Len(signatures)}

\* every signature of the list is in its own file, with exactly its bytes, and
\* no other file of the destination differs from what the call found
SignaturesStored(c) ==
    /\ Cardinality(SignaturePaths(c.signatures)) = Len(c.signatures)
    /\ \A k \in 1..Len(c.signatures) :
          /\ Exists(<<"signature-" \o ToString(k)>>)
          /\ files[<<"signature-" \o ToString(k)>>].data = c.signatures[k]
    /\ \A path \in (DOMAIN files) \ SignaturePaths(c.signatures) :
          path \in DOMAIN c.before.files /\ files[path] = c.before.files[path]
    /\ DOMAIN c.before.files \subseteq DOMAIN files

\* C12: OCI PutSignatures fails if and only if the list is non-empty and never
\* writes a file; a directory PutSignatures that succeeds has written one file
\* per signature, signature-1, signature-2, ... in list order, each with
\* exactly that signature's bytes; GetSignatures of the registry source returns
\* the empty sequence, without error and without a request.
C12_Signatures ==
    /\ \A p \in Procs :
          /\ (proc[p].op = "PutSignatures" /\ dest = "oci")
                => /\ proc[p].pc = "done"
                   /\ files = proc[p].before.files /\ dirs = proc[p].before.dirs
                   /\ proc[p].ret.err # "" <=> proc[p].signatures # <<>>
          /\ (Returned(p, "PutSignatures") /\ dest = "dir" /\ proc[p].ret.err = "")
                => SignaturesStored(proc[p])
    /\ (sc.op = "GetSignatures" /\ sc.pc = "done")
          => sc.signatures = <<>> /\ sc.ret.err = NoError /\ wire = <<>>

\* a directory PutSignatures of two different signatures succeeded, and
\* GetSignatures returned
C12_Witness ==
    /\ Returned(1, "PutSignatures") /\ dest = "dir" /\ proc[1].ret.err = ""
    /\ Len(proc[1].signatures) = 2
    /\ proc[1].signatures[1] # proc[1].signatures[2]
    /\ proc[1].signatures[2] # <<>>
    /\ sc.op = "GetSignatures" /\ sc.pc = "done"

(* ------------------------------ PutBlob, run twice --------------------- *)

\* the digests a caller may expect of stream: none, the digest of the stream,
\* and a digest of other content
ExpectedDigests(stream) ==
    {<<>>, <<"sha256", ":", HexSha256(stream)>>, <<"sha256", ":", "00">>}

\* the first run: caller 1 calls PutBlob, leaving one call for the second run
FirstRun ==
    /\ calls + 1 < MaxCalls
    /\ proc[2].op = "none"
    /\ \E stream \in Streams, ok \in BOOLEAN :
          \E errAt \in -1..Len(stream), digest \in ExpectedDigests(stream) :
              PutBlobTempFile(1, stream, digest, errAt, ok, Snapshot)

\* between the runs: what the first run left is kept, and the destination is
\* again as the first run found it
Restore ==
    /\ proc[1].pc = "done" /\ proc[1].op = "PutBlob"
    /\ proc[2] = Idle
    /\ proc' = [proc EXCEPT ![1].after = Snapshot, ![2].op = "PutBlob"]
    /\ files' = proc[1].before.files
    /\ dirs' = proc[1].before.dirs
    /\ UNCHANGED <<otherVars, dest, calls>>

\* the operation of the second run answers as it did in the first
Again(step) == proc[1].ret.err # step

\* the second run: caller 2 calls PutBlob on the same stream with another
\* expected digest, and every operation answers as in the first run
SecondRun ==
    \/ /\ proc[2].pc = "idle" /\ proc[2].op = "PutBlob"
       /\ \E digest \in ExpectedDigests(proc[1].stream) \ {proc[1].expected} :
             PutBlobTempFile(2, proc[1].stream, digest, proc[1].errAt, Again("tempfile"),
                             Snapshot)
    \/ PutBlobCopy(2, ~(proc[1].ret.err = "write" /\ proc[1].pos = proc[2].pos))
    \/ PutBlobSync(2, Again("sync"))
    \/ PutBlobChmod(2, Again("chmod"))
    \/ EnsureParentStat(2)
    \/ EnsureParentMkdirAll(2, Again("mkdir"))
    \/ PutBlobRename(2, Again("rename"))
    \/ PutBlobDeferred(2)

NextTwoRuns == FirstRun \/ Continue(1) \/ Restore \/ SecondRun

SpecTwoRuns == Init /\ [][NextTwoRuns]_vars

(* ------------------------------ C13 ------------------------------------ *)

\* both runs returned
BothRunsReturned ==
    /\ Returned(1, "PutBlob") /\ Returned(2, "PutBlob")
    /\ proc[2].stream = proc[1].stream
    /\ proc[2].before = proc[1].before
    /\ proc[2].expected # proc[1].expected

\* C13: two runs of PutBlob from the same directory state on the same stream,
\* with different expected digests (none, the matching one, one that does not
\* match), return the same digest, size and error and leave the same files and
\* directories; on success the digest returned is the one computed from the
\* stream, and the blob is under the name made of it.
C13_ExpectedDigestIgnored ==
    BothRunsReturned
        => /\ proc[2].ret = proc[1].ret
           /\ files = proc[1].after.files
           /\ dirs = proc[1].after.dirs
           /\ proc[2].ret.err = ""
                 => /\ proc[2].ret.digest = ComputedDigest(Sha256WriteAll(Sha256New, proc[2].stream))
                    /\ proc[2].ret.size = Len(proc[2].stream)
                    /\ Exists(FinalBlobPath(proc[2].ret.digest).path)
                    /\ files[FinalBlobPath(proc[2].ret.digest).path].data = proc[2].stream

\* a run with the matching digest and a run with a digest of other content both
\* stored a non-empty blob
C13_Witness ==
    /\ BothRunsReturned
    /\ proc[1].ret.err = "" /\ proc[2].ret.err = ""
    /\ proc[1].stream # <<>>
    /\ {proc[1].expected, proc[2].expected} =
          {<<"sha256", ":", HexSha256(proc[1].stream)>>, <<"sha256", ":", "00">>}

(* ------------------------------ C14 ------------------------------------ *)

\* C14 as stated: the OCI destination creates the missing parent directories
\* of every file it places: whenever PutBlob is about to rename its file to the
\* final path, or PutManifest is about to open a file of the layout for
\* writing, the directory the file goes to exists, whether or not a PutBlob
\* was called before.
C14_ParentsCreated ==
    \A p \in Procs :
        /\ (dest = "oci" /\ proc[p].op = "PutBlob" /\ proc[p].pc = "rename")
              => DirExists(Dir(FinalBlobPath(proc[p].digest).path))
        /\ (dest = "oci" /\ proc[p].op = "PutManifest" /\ proc[p].pc = "open")
              => DirExists(Dir(WritePath(proc[p])))

(* ------------------------------ C15 ------------------------------------ *)

\* refs/<tag> holds a descriptor of the OCI manifest type whose digest names a
\* blob file of the layout, with the digest and the length of the bytes in
\* that file, and these bytes are the manifest as converted
DescribesStored(c) ==
    /\ Exists(RefPath)
    /\ \E path \in {q \in DOMAIN files : ContentAddressed(q)} :
          LET B == files[path].data
          IN /\ path = <<"blobs", "/", "sha256", "/", HexSha256(B)>>
             /\ files[RefPath].data =
                   <<MediaTypeImageManifest, "sha256:" \o HexSha256(B), ToString(Len(B))>>
             /\ B = createManifest(c.m).b
             /\ createManifest(c.m).mt = MediaTypeImageManifest

\* the dialects SupportedManifestMIMETypes lists
Supported == {SupportedManifestMIMETypes[k] : k \in 1..Len(SupportedManifestMIMETypes)}

\* C15: after a successful OCI PutManifest the descriptor at refs/<tag> has the
\* digest of the converted manifest, which names the blob file holding exactly
\* those bytes, their length as size, and the MIME type the conversion
\* returned, the OCI manifest type; PutManifest goes on to write only for a
\* manifest of a dialect SupportedManifestMIMETypes lists (OCI v1 manifest,
\* schema 2), accepts every well-formed manifest of these, and fails on every
\* other dialect.
C15_DescriptorOfStored ==
    \A p \in Procs :
        (dest = "oci" /\ proc[p].op = "PutManifest")
            => LET c == proc[p]
               IN /\ (c.pc = "done" /\ c.ret.err = "") => DescribesStored(c)
                  /\ c.wf # "" => GuessMIMEType(c.m) \in Supported
                  /\ GuessMIMEType(c.m) \notin Supported => c.pc = "done" /\ c.ret.err # ""
                  /\ c.m \in {Schema2Manifest, Schema2Untyped, OCIManifest} => c.wf # ""
                  /\ Supported = {MediaTypeImageManifest, DockerV2Schema2MIMEType}

\* a schema 2 manifest was stored, and the descriptor has another digest than
\* that of the bytes PutManifest was given
C15_Witness ==
    \E p \in Procs :
        /\ dest = "oci"
        /\ Returned(p, "PutManifest")
        /\ proc[p].m = Schema2Manifest
        /\ proc[p].ret.err = ""
        /\ files[RefPath].data[2] # "sha256:" \o HexSha256(proc[p].m)
        /\ files[RefPath].data[3] = ToString(Len(proc[p].ociMan))

(* ------------------------------ C16 ------------------------------------ *)

\* the one body the call handed to its caller: that of a GetBlob answered 200
HandedToCaller(i) ==
    /\ sc.op = "GetBlob"
    /\ sc.ret.err = NoError
    /\ sc.body = "res.Body"
    /\ wire[i].res.status = StatusOK

\* C16 as stated: when a registry source operation has returned, every
\* response body it obtained is closed, or is the stream a GetBlob answered
\* 200 returned; no error return leaves a body open.  On 200 GetBlob returns
\* the size of Content-Length, or 0 when the header is absent or unparsable.
C16_BodiesClosed ==
    sc.pc = "done"
        => /\ \A i \in 1..Len(wire) : wire[i].open => HandedToCaller(i)
           /\ (sc.op = "GetBlob" /\ sc.ret.err = NoError)
                 => /\ wire[1].open
                    /\ sc.size = IF wire[1].res.contentLength = "7" THEN 7 ELSE 0

(* ------------------------------ inspectManifest ------------------------ *)

\* a nil *types.ImageInspectInfo
NilInfo == [nil |-> TRUE, Os |-> "", Layers |-> <<>>]

\* what m.imageInspectInfo() may return: the metadata the manifest declares,
\* its Layers unset or set, or an error
InspectInfos ==
    {[info |-> [nil |-> FALSE, Os |-> "linux", Layers |-> l], err |-> ""] :
        l \in {<<>>, <<"sha256:stale">>}}
      \cup {[info |-> NilInfo, err |-> "config blob"],
            [info |-> [nil |-> FALSE, Os |-> "linux", Layers |-> <<>>], err |-> "config blob"]}

\* the types.BlobInfo values m.LayerInfos() may hold: Size may be -1
BlobInfos == [Digest : {"sha256:l1", "sha256:l2"}, Size : {-1, 5}]

\* the manifests inspectManifest may be given, by what their methods return:
\* the layers root first, duplicates among them
GenericManifests == [imageInspectInfo : InspectInfos, LayerInfos : SeqsUpTo(BlobInfos, MaxLayers)]

\* inspectManifest listing the layers last first
inspectManifestReversed(m) ==
    LET r == m.imageInspectInfo
        layers == m.LayerInfos
    IN IF r.err # ""
       THEN [info |-> NilInfo, err |-> r.err]
       ELSE [info |-> [r.info EXCEPT !.Layers =
                          [i \in 1..Len(layers) |-> layers[Len(layers) + 1 - i].Digest]],
             err |-> ""]

\* inspectManifest
inspectManifest(m) ==
    LET r == m.imageInspectInfo
        layers == m.LayerInfos
    IN IF r.err # ""
       THEN [info |-> NilInfo, err |-> r.err]
       ELSE [info |-> [r.info EXCEPT !.Layers = [i \in 1..Len(layers) |-> layers[i].Digest]],
             err |-> ""]

\* inspectManifest is called on the input
Inspect ==
    /\ ~disp.called
    /\ disp' = [disp EXCEPT !.called = TRUE, !.out = inspectManifest(disp.m)]
    /\ UNCHANGED <<fsVars, sc, wire>>

InitInspect ==
    /\ FsIdle
    /\ sc = SourceIdle
    /\ wire = <<>>
    /\ disp \in [m : GenericManifests, called : {FALSE}, out : {[info |-> NilInfo, err |-> ""]}]

SpecInspect == InitInspect /\ [][Inspect]_vars

(* ------------------------------ C17 ------------------------------------ *)

\* C17: inspectManifest returns the metadata of imageInspectInfo with Layers of
\* the length of LayerInfos() and Layers[i] = LayerInfos()[i].Digest for every
\* i (root first, duplicates kept in place); when imageInspectInfo fails it
\* returns that error and no metadata.
C17_InspectLayers ==
    disp.called
        => LET r == disp.m.imageInspectInfo
               layers == disp.m.LayerInfos
           IN IF r.err = ""
              THEN /\ disp.out.err = ""
                   /\ ~disp.out.info.nil
                   /\ disp.out.info.Os = r.info.Os
                   /\ Len(disp.out.info.Layers) = Len(layers)
                   /\ \A i \in 1..Len(layers) : disp.out.info.Layers[i] = layers[i].Digest
              ELSE /\ disp.out.err = r.err
                   /\ disp.out.info = NilInfo

\* three layers, the first and the third with the same digest, over metadata
\* that came with another Layers list
C17_Witness ==
    /\ disp.called
    /\ disp.out.err = ""
    /\ disp.out.info.Layers = <<"sha256:l1", "sha256:l2", "sha256:l1">>
    /\ disp.m.imageInspectInfo.info.Layers = <<"sha256:stale">>

(* ------------------------------ C18 ------------------------------------ *)

\* the contents the files hold
ContentsOf(fs) == {fs[q].data : q \in DOMAIN fs}

\* the destination that holds exactly the contents S: one file for each, under
\* the name made of its digest
HoldingExactly(S) ==
    [path \in {BlobPathOf(B) : B \in S} |->
        [data |-> CHOOSE B \in S : BlobPathOf(B) = path, mode |-> Mode0644]]

\* C18: between PutBlob calls the destination holds exactly one file per
\* distinct content written, so that its state is given by the set of the
\* contents and not by the order of the calls; a successful PutBlob adds its
\* content to this set and returns the digest and size of the content; when
\* the content is already there, files and directories are left as they were;
\* a failed PutBlob leaves the files as they were.
C18_PutBlobIdempotent ==
    \A p \in Procs :
        LET c == proc[p]
        IN /\ (\A q \in Procs : ~InCall(q)) => files = HoldingExactly(ContentsOf(files))
           /\ (Returned(p, "PutBlob") /\ c.ret.err = "")
                 => /\ ContentsOf(files) = ContentsOf(c.before.files) \cup {c.stream}
                    /\ c.ret.digest = ComputedDigest(Sha256WriteAll(Sha256New, c.stream))
                    /\ c.ret.size = Len(c.stream)
                    /\ c.stream \in ContentsOf(c.before.files)
                          => files = c.before.files /\ dirs = c.before.dirs
           /\ (Returned(p, "PutBlob") /\ c.ret.err # "") => files = c.before.files

\* a PutBlob of content that was already there succeeded
C18_Witness ==
    /\ Returned(1, "PutBlob")
    /\ proc[1].ret.err = ""
    /\ proc[1].stream # <<>>
    /\ proc[1].stream \in ContentsOf(proc[1].before.files)

====
